---- MODULE Spec2Model ----
(***************************************************************************)
(* Model of the scripts-manager service: the script executor               *)
(* (src/script_executor) and the script repository (src/scripts_manager).  *)
(*                                                                         *)
(* Strings are sequences of tokens: "geology/test.py" is                   *)
(* <<"geology", "/", "test", ".py">>.  A file system path is a sequence of *)
(* components and a component is a sequence of tokens, so                  *)
(* /app/scripts/test.py is <<<<"app">>, <<"scripts">>, <<"test", ".py">>>>.*)
(***************************************************************************)
EXTENDS Naturals, Sequences, FiniteSets, TLC

\* ------------------------------------------------------------------ bounds

\* Number of requests to the execution endpoint in one behaviour.
MaxCalls == 2
\* Largest configured max_script_execution_time (seconds) that Init draws.
MaxTimeout == 2
\* Number of folder records created in one behaviour.
MaxFolders == 1
\* Number of script records created in one behaviour.
MaxScripts == 2

\* Requests that wait for the event loop at a time
MaxBacklog == 1

\* Folders created in a folder tree
MaxTreeFolders == 2

\* ------------------------------------------------------------ text helpers

Last(s) == s[Len(s)]

Front(s) == SubSeq(s, 1, Len(s) - 1)

IsPrefix(p, s) == Len(p) <= Len(s) /\ SubSeq(s, 1, Len(p)) = p

Whitespace == {" ", "\n"}

RECURSIVE lstrip(_, _)
\* str.lstrip(chars): drop the leading tokens that are in chars.
lstrip(s, chars) ==
    IF s # <<>> /\ Head(s) \in chars THEN lstrip(Tail(s), chars) ELSE s

RECURSIVE rstrip(_, _)
rstrip(s, chars) ==
    IF s # <<>> /\ Last(s) \in chars THEN rstrip(Front(s), chars) ELSE s

\* str.strip(): drop leading and trailing whitespace.
strip(s) == rstrip(lstrip(s, Whitespace), Whitespace)

RECURSIVE Without(_, _)
Without(s, chars) ==
    IF s = <<>> THEN <<>>
    ELSE IF Head(s) \in chars THEN Without(Tail(s), chars)
    ELSE <<Head(s)>> \o Without(Tail(s), chars)

\* --------------------------------------------------------------- pathlib

\* File name suffixes that occur in the model.
Suffixes == {".py", ".txt"}

RECURSIVE SplitParts(_, _, _)
\* The components of a path string: split at "/", empty and "." components
\* dropped (pathlib collapses them).
SplitParts(s, cur, acc) ==
    LET flush == IF cur = <<>> \/ cur = <<".">> THEN acc ELSE Append(acc, cur)
    IN  IF s = <<>> THEN flush
        ELSE IF Head(s) = "/" THEN SplitParts(Tail(s), <<>>, flush)
        ELSE SplitParts(Tail(s), Append(cur, Head(s)), acc)

\* base / s: an absolute right operand replaces the base.
JoinPath(base, s) ==
    IF s # <<>> /\ Head(s) = "/"
    THEN SplitParts(s, <<>>, <<>>)
    ELSE base \o SplitParts(s, <<>>, <<>>)

RECURSIVE ResolveParts(_, _)
\* Path.resolve() on a file system without symbolic links: ".." removes the
\* component before it, and the root is its own parent.
ResolveParts(parts, acc) ==
    IF parts = <<>> THEN acc
    ELSE IF Head(parts) = <<"..">>
         THEN ResolveParts(Tail(parts), IF acc = <<>> THEN acc ELSE Front(acc))
         ELSE ResolveParts(Tail(parts), Append(acc, Head(parts)))

resolve(parts) == ResolveParts(parts, <<>>)

\* Path.relative_to(base) succeeds iff base is a prefix of the path.
relative_to_ok(path, base) == IsPrefix(base, path)

\* Path.suffix: the last dot-part of the final component, "" if none.
suffix(path) ==
    IF path = <<>> THEN ""
    ELSE LET name == Last(path)
         IN  IF Len(name) > 1 /\ Last(name) \in Suffixes THEN Last(name) ELSE ""

\* ---------------------------------------------------------------- config

\* settings.scripts_dir.resolve(): <project>/scripts
scripts_dir == <<<<"app">>, <<"scripts">>>>

allowed_script_extensions == {".py"}

\* settings.max_file_size, in bytes
max_file_size == 100 * 1024 * 1024

\* ------------------------------------------------------------------ json

\* Python values are records [type, repr]: the Python type name and the
\* value's canonical JSON text (for a str made from raw output, the text).
Value(type, repr) == [type |-> type, repr |-> repr]

None == Value("NoneType", <<"null">>)

\* str(temp_dir) and str(temp_file_path) of _prepare_script_input as JSON
\* strings, for the n-th name tempfile can give
TempDirString(n) == "\"/tmp/tmp" \o ToString(n) \o "\""

TempFileString(n) == "\"/tmp/tmp" \o ToString(n) \o "/upload.txt\""

JsonStrings ==
    {"\"doubled\"", "\"text\"", "\"value\"", "\"flag\"", "\"_files\"", "\"_temp_dir\"",
     "\"upload.txt\""}
    \cup {TempDirString(n) : n \in 1..MaxCalls}
    \cup {TempFileString(n) : n \in 1..MaxCalls}

JsonNumbers == {"42", "21", "0"}

JsonFail == [ok |-> FALSE, type |-> "", rest |-> <<>>]

JsonOk(type, rest) == [ok |-> TRUE, type |-> type, rest |-> rest]

RECURSIVE ParseValue(_), ParseMembers(_), ParseElements(_)
\* One JSON value at the front of s: its Python type and the rest.
ParseValue(s0) ==
    LET s == lstrip(s0, Whitespace)
    IN  IF s = <<>> THEN JsonFail
        ELSE LET h == Head(s)
                 t == lstrip(Tail(s), Whitespace)
             IN  CASE h \in JsonStrings -> JsonOk("str", Tail(s))
                   [] h \in JsonNumbers -> JsonOk("int", Tail(s))
                   [] h \in {"true", "false"} -> JsonOk("bool", Tail(s))
                   [] h = "null" -> JsonOk("NoneType", Tail(s))
                   [] h = "{" -> IF t # <<>> /\ Head(t) = "}"
                                 THEN JsonOk("dict", Tail(t))
                                 ELSE ParseMembers(t)
                   [] h = "[" -> IF t # <<>> /\ Head(t) = "]"
                                 THEN JsonOk("list", Tail(t))
                                 ELSE ParseElements(t)
                   [] OTHER -> JsonFail

\* key : value { , key : value } "}"
ParseMembers(s0) ==
    LET s == lstrip(s0, Whitespace)
    IN  IF s = <<>> \/ Head(s) \notin JsonStrings THEN JsonFail
        ELSE LET c == lstrip(Tail(s), Whitespace)
             IN  IF c = <<>> \/ Head(c) # ":" THEN JsonFail
                 ELSE LET v == ParseValue(Tail(c))
                          r == lstrip(v.rest, Whitespace)
                      IN  IF ~v.ok \/ r = <<>> THEN JsonFail
                          ELSE IF Head(r) = "}" THEN JsonOk("dict", Tail(r))
                          ELSE IF Head(r) = "," THEN ParseMembers(Tail(r))
                          ELSE JsonFail

\* value { , value } "]"
ParseElements(s0) ==
    LET v == ParseValue(s0)
        r == lstrip(v.rest, Whitespace)
    IN  IF ~v.ok \/ r = <<>> THEN JsonFail
        ELSE IF Head(r) = "]" THEN JsonOk("list", Tail(r))
        ELSE IF Head(r) = "," THEN ParseElements(Tail(r))
        ELSE JsonFail

\* json.loads(s): ok is FALSE where Python raises json.JSONDecodeError
\* (no value, or extra data after it).
json_loads(s) ==
    LET v == ParseValue(s)
    IN  IF v.ok /\ lstrip(v.rest, Whitespace) = <<>>
        THEN [ok |-> TRUE, value |-> Value(v.type, Without(s, Whitespace))]
        ELSE [ok |-> FALSE, value |-> None]

\* ------------------------------------------------------------------ state

VARIABLES
    max_execution_time, \* ScriptExecutorService.max_execution_time (seconds)
    files,              \* regular files on disk: path -> content
    folders,            \* rows of table folders
    scripts,            \* rows of table scripts
    next_folder_id,     \* next autoincrement id of table folders
    next_script_id,     \* next autoincrement id of table scripts
    tmp_wrappers,       \* wrapper files in the temp directory: name -> the
                        \* script path their text embeds
    tmp_dirs,           \* upload directories made by tempfile.mkdtemp
    pc,                 \* position of the execution request being handled
    calls,              \* execution requests answered so far
    script_path,        \* the request's script_path
    json_data,          \* the request's json_data form field, <<>> when absent
    input_data,         \* execute_script's input_data
    validated_path,     \* execute_script's validated_path
    temp_dir,           \* input_data["_temp_dir"], 0 when absent
    wrapper_script,     \* execute_script's wrapper_script, 0 for None
    created_artifact,   \* the wrapper file this call made on disk, 0 if none
    child,              \* the call's child process: none, running, exited, killed
    clock,              \* seconds since the child was started
    executed,           \* the script file the child was started on
    result,             \* the CompletedProcess of subprocess.run
    response,           \* what the endpoint answered
    authorization,      \* the request's Authorization header, <<>> when absent
    params,             \* the request's params form field, <<>> when absent
    uploads,            \* the sizes in bytes of the request's uploaded files
    runs,               \* the times subprocess.run was called for the request
    backlog,            \* requests received that the event loop has not taken up
    peer,               \* the execution another server process is handling
    called,             \* the update_folder or delete_folder call that was the
                        \* latest call of the repository, and what it raised
    previous,           \* the execution request answered before this one and
                        \* its answer, where the behaviour keeps it
    created,            \* what the latest create_script call was given and
                        \* raised, until the next execution request
    validated_content,  \* a text given to validate_script_content
    verdict             \* what validate_script_content returned for it

repo_vars == <<files, folders, scripts, next_folder_id, next_script_id>>

call_vars == <<pc, calls, script_path, json_data, input_data, validated_path, temp_dir, wrapper_script,
               created_artifact, child, clock, executed, result, response,
               authorization, params, uploads, runs>>

server_vars == <<backlog, peer>>

validator_vars == <<validated_content, verdict>>

vars == <<max_execution_time, repo_vars, tmp_wrappers, tmp_dirs, call_vars, previous,
          created, validator_vars, server_vars, called>>

\* ------------------------------------------------------------ file system

\* Directories of the deployment: /, /app, /app/src, /app/scripts and the
\* scripts/test directory the repository ships.
Dirs ==
    { <<>>, <<<<"app">>>>, <<<<"app">>, <<"src">>>>, scripts_dir,
      scripts_dir \o <<<<"test">>>> }

\* Path.exists()
exists(path) == path \in DOMAIN files \/ path \in Dirs

\* Names tempfile can give a new file or directory; a call leaves at most one
\* of each behind.
TmpNames == 1..MaxCalls

Remove(f, k) == [x \in DOMAIN f \ {k} |-> f[x]]

\* A tempfile that gives any name, in use or not.
mkstemp_any(wrappers) == TmpNames

\* The names tempfile.NamedTemporaryFile can give a new file: it opens the
\* file with O_EXCL, so never under a name that is in use.
mkstemp(wrappers) == TmpNames \ DOMAIN wrappers

\* ------------------------------------------------- script_executor/service

Valid(path) == [ok |-> TRUE, path |-> path, error |-> <<>>]

ValueError(msg) == [ok |-> FALSE, path |-> <<>>, error |-> msg]

\* _validate_script_path without the relative_to check.
validate_script_path_unconfined(sp) ==
    LET normalized_path == lstrip(sp, {"/"})
        absolute_path == resolve(JoinPath(scripts_dir, normalized_path))
    IN  IF ~exists(absolute_path)
        THEN ValueError(<<"Script '">> \o sp \o <<"' not found">>)
        ELSE IF suffix(absolute_path) \notin allowed_script_extensions
        THEN ValueError(<<"Script '">> \o sp \o <<"' has invalid extension. ">>)
        ELSE Valid(absolute_path)

\* ScriptExecutorService._validate_script_path
validate_script_path(sp) ==
    LET normalized_path == lstrip(sp, {"/"})
        absolute_path == resolve(JoinPath(scripts_dir, normalized_path))
    IN  IF ~relative_to_ok(absolute_path, scripts_dir)
        THEN ValueError(<<"Script path '">> \o sp \o <<"' is outside scripts directory">>)
        ELSE IF ~exists(absolute_path)
        THEN ValueError(<<"Script '">> \o sp \o <<"' not found">>)
        ELSE IF suffix(absolute_path) \notin allowed_script_extensions
        THEN ValueError(<<"Script '">> \o sp \o <<"' has invalid extension. ">>)
        ELSE Valid(absolute_path)

NoResult == [returncode |-> 0, stdout |-> <<>>, stderr |-> <<>>]

\* result.stdout or result.stderr or "Unknown error"
error_msg_stdout_first(res) ==
    IF res.stdout # <<>> THEN res.stdout
    ELSE IF res.stderr # <<>> THEN res.stderr
    ELSE <<"Unknown error">>

\* result.stderr or result.stdout or "Unknown error"
error_msg(res) ==
    IF res.stderr # <<>> THEN res.stderr
    ELSE IF res.stdout # <<>> THEN res.stdout
    ELSE <<"Unknown error">>

SuccessMessage ==
    Value("dict", <<"{", "\"message\"", ":", "\"Script executed successfully\"", "}">>)

\* result_data with output = result.stdout, not stripped.
result_data_unstripped(stdout) ==
    LET parsed == json_loads(stdout)
    IN  IF stdout # <<>>
        THEN IF parsed.ok THEN parsed.value ELSE Value("str", stdout)
        ELSE SuccessMessage

\* result_data that answers the success message for output that is not JSON.
result_data_drops_text(stdout) ==
    LET output == strip(stdout)
        parsed == json_loads(output)
    IN  IF output # <<>> /\ parsed.ok THEN parsed.value ELSE SuccessMessage

\* result_data that never calls json.loads.
result_data_no_parse(stdout) ==
    LET output == strip(stdout)
    IN  IF output # <<>> THEN Value("str", output) ELSE SuccessMessage

\* The value execute_script returns for a child that exited with code 0.
result_data(stdout) ==
    LET output == strip(stdout)
        parsed == json_loads(output)
    IN  IF output # <<>>
        THEN IF parsed.ok THEN parsed.value ELSE Value("str", output)
        ELSE SuccessMessage

Returned(value) == [raised |-> FALSE, value |-> value, message |-> <<>>]

ScriptExecutionError(msg) == [raised |-> TRUE, value |-> None, message |-> msg]

\* except Exception as e: raise ScriptExecutionError("Error executing script: ...")
reraise(msg) == ScriptExecutionError(<<"Error executing script: ">> \o msg)

\* execute_script after subprocess.run returned res: the ScriptExecutionError
\* raised for a non-zero exit is raised inside the try block, so the
\* except Exception clause catches and wraps it.
after_run(res) ==
    IF res.returncode # 0
    THEN reraise(<<"Script execution failed: ">> \o error_msg(res))
    ELSE Returned(result_data(res.stdout))

\* The timeout error caught and wrapped by the except Exception clause.
timeout_error_wrapped(seconds) ==
    reraise(<<"Script execution timeout after ", ToString(seconds), " seconds">>)

\* except subprocess.TimeoutExpired
timeout_error(seconds) ==
    ScriptExecutionError(<<"Script execution timeout after ", ToString(seconds),
                           " seconds">>)

\* subprocess.run(timeout=None): the wait never ends by itself.
deadline_never(seconds) == FALSE

\* subprocess.run(timeout=self.max_execution_time): the wait for the child
\* ends once that many seconds have passed since it was started.
deadline_passed(seconds) == seconds >= max_execution_time

\* finally: if wrapper_script and wrapper_script.exists(): wrapper_script.unlink()
finally_unlink(ws, wrappers) ==
    IF ws # 0 /\ ws \in DOMAIN wrappers THEN Remove(wrappers, ws) ELSE wrappers

\* bool(value) for a decoded JSON value
truthy(value) ==
    value.repr \notin {<<"null">>, <<"false">>, <<"0">>, <<"\"\"">>, <<"{", "}">>,
                       <<"[", "]">>}

\* input_data: data is the JSON text of the entries merged from json_data,
\* _temp_dir the name of the upload directory, 0 when there is none.
InputData(data, dir) == [data |-> data, _temp_dir |-> dir]

NoInput == InputData(<<"{", "}">>, 0)

\* What input_data.update(json_data) raises: nothing for a dict, ValueError
\* for a str (its characters are no key-value pairs), TypeError for a
\* number, a bool and a list of values that are no pairs.
update_raises(value) ==
    IF ~truthy(value) \/ value.type = "dict" THEN "none"
    ELSE IF value.type = "str" THEN "ValueError"
    ELSE "TypeError"

\* _prepare_script_input: the entries of json_data when it is truthy
prepared_data(value) == IF truthy(value) THEN value.repr ELSE <<"{", "}">>

\* input_data.update(params) on the entries data: params that are not truthy
\* are skipped; the inputs give params keys that data has only with the same
\* value, so that its entries come after those of data.
updated(data, value) ==
    IF ~truthy(value) \/ data = value.repr THEN data
    ELSE IF data = <<"{", "}">> THEN value.repr
    ELSE Front(data) \o <<",", " ">> \o Tail(value.repr)

\* A runner that starts the child again when it has ended.
subprocess_run_retried(n) == n + 2

\* subprocess.run starts one child: the calls made of it after n calls
subprocess_run(n) == n + 1

\* json.dumps(input_data): the entries of data, then _files and _temp_dir
dumps(input) ==
    IF input._temp_dir = 0 THEN input.data
    ELSE Front(input.data)
         \o (IF input.data = <<"{", "}">> THEN <<>> ELSE <<",">>)
         \o <<"\"_files\"", ":", "{", "\"upload.txt\"", ":",
              TempFileString(input._temp_dir), "}", ",",
              "\"_temp_dir\"", ":", TempDirString(input._temp_dir), "}">>

\* The wrapper's line INPUT_DATA = <json.dumps(input_data)> is Python source:
\* the JSON literals true, false and null are names Python does not define.
undefined_names(literal) ==
    {literal[i] : i \in DOMAIN literal} \cap {"true", "false", "null"}

\* str(wrapper_script) for the n-th name tempfile can give
WrapperName(n) == "/tmp/tmp" \o ToString(n) \o ".py"

\* What Python prints for an exception raised while the wrapper runs: the
\* traceback starts in the wrapper file (line numbers are left out).
traceback(n, exception) ==
    <<"Traceback (most recent call last):", "\n", "  File \"", WrapperName(n),
      "\", in <module>", "\n", exception, "\n">>

CompletedProcess(returncode, stdout, stderr) ==
    [exits |-> TRUE, returncode |-> returncode, stdout |-> stdout, stderr |-> stderr]

\* A child that does not exit by itself
Hangs == [exits |-> FALSE, returncode |-> 0, stdout |-> <<>>, stderr |-> <<>>]

\* data.get("value", 0) * 2 for the payloads of the model
doubled(data) ==
    IF \E i \in 1..(Len(data) - 2) :
           data[i] = "\"value\"" /\ data[i + 1] = ":" /\ data[i + 2] = "21"
    THEN "42" ELSE "0"

\* What main(INPUT_DATA) returns, as JSON text
main_result(text, input) ==
    IF text.main = "doubled"
    THEN <<"{", "\"doubled\"", ":", doubled(input.data), "}">>
    ELSE dumps(input)

\* The child started on wrapper n, whose text embeds input and the script
\* text: it assigns INPUT_DATA, then compiles and executes the script's text
\* in its own globals, where __name__ is "__main__".  The script's functions
\* get defined; nothing calls main unless the script's own module-level code
\* does.
run_wrapper(n, input, text) ==
    IF undefined_names(dumps(input)) # {}
    THEN CompletedProcess(1, <<>>, traceback(n, "NameError: name is not defined"))
    ELSE IF ~text.parses
    THEN CompletedProcess(1, <<>>, traceback(n, "SyntaxError: invalid syntax"))
    ELSE CASE text.body = "defs" -> CompletedProcess(0, <<>>, <<>>)
           [] text.body = "print_input" ->
                  CompletedProcess(0, dumps(input) \o <<"\n">>, <<>>)
           [] text.body = "call_main" ->
                  CompletedProcess(0, main_result(text, input) \o <<"\n">>, <<>>)
           [] text.body = "raise" ->
                  CompletedProcess(1, <<>>, traceback(n, "RuntimeError"))
           [] OTHER -> Hangs

\* -------------------------------------------------- script_executor/router

NoResponse ==
    [kind |-> "none", status_code |-> 0, success |-> FALSE, result |-> None,
     error |-> <<>>]

ScriptExecutionResponse(success, res, error, execution_time) ==
    [kind |-> "ScriptExecutionResponse", status_code |-> 200, success |-> success,
     result |-> res, error |-> error, execution_time |-> execution_time]

\* error holds the exception's detail
HTTPException(status_code, detail) ==
    [kind |-> "HTTPException", status_code |-> status_code, success |-> FALSE,
     result |-> None, error |-> detail]

\* except Exception: raise HTTPException(500, "Internal server error: ...")
internal_server_error(message) ==
    HTTPException(500, <<"Internal server error: ">> \o message)

\* An endpoint that lets ScriptExecutionError reach the except Exception
\* clause.
endpoint_response_raises(outcome, execution_time) ==
    IF outcome.raised
    THEN internal_server_error(outcome.message)
    ELSE ScriptExecutionResponse(TRUE, outcome.value, <<>>, execution_time)

\* The endpoint's answer to what ScriptExecutorService.execute_script did,
\* execution_time seconds after the request came in.
endpoint_response(outcome, execution_time) ==
    IF outcome.raised
    THEN ScriptExecutionResponse(FALSE, None, outcome.message, execution_time)
    ELSE ScriptExecutionResponse(TRUE, outcome.value, <<>>, execution_time)

\* ------------------------------------------ scripts_manager/validators

\* A script's text is modelled by what ast.parse makes of it: whether it
\* parses, and its function definition nodes in ast.walk order (breadth
\* first: the definitions of the module body come before nested ones), each
\* with its ast.arguments.  A parameter is modelled by its annotation.

\* kind is the annotation's node type, none for no annotation; id is the
\* name it spells (for a Subscript, the name of the subscripted value); of
\* is the node type of a Subscript's value.
Subscript(of, id) == [kind |-> "Subscript", id |-> id, of |-> of]

Annotation(kind, id) ==
    IF kind = "Subscript" THEN Subscript("Name", id)
    ELSE [kind |-> kind, id |-> id, of |-> ""]

NoAnnotation == Annotation("none", "")

\* ast.arguments: vararg and kwarg are sequences of at most one parameter
arguments(posonlyargs, args, vararg, kwonlyargs, kwarg) ==
    [posonlyargs |-> posonlyargs, args |-> args, vararg |-> vararg,
     kwonlyargs |-> kwonlyargs, kwarg |-> kwarg]

\* def name(args): a definition in the module body whose parameters are all
\* plain positional ones
FunctionDef(name, args) ==
    [type |-> "FunctionDef", name |-> name, parent |-> "Module",
     args |-> arguments(<<>>, args, <<>>, <<>>, <<>>)]

\* A text: body is what its module-level code does besides defining
\* functions (defs for nothing), main what its main computes (other when
\* the model does not compute it); see run_wrapper.
Text(parses, functions, main, body) ==
    [parses |-> parses, functions |-> functions, main |-> main, body |-> body]

\* A text that only defines functions
Source(parses, functions) == Text(parses, functions, "other", "defs")

\* src/scripts/test.py: helper_function(value: int) and main(data: dict)
SampleScript ==
    Source(TRUE, << FunctionDef("helper_function", <<Annotation("Name", "int")>>),
                    FunctionDef("main", <<Annotation("Name", "dict")>>) >>)

\* src/src/app.py defines no FunctionDef named main
AppSource == Source(TRUE, << FunctionDef("health_check", <<>>) >>)

MainScript == Source(TRUE, << FunctionDef("main", <<Annotation("Name", "dict")>>) >>)

NoMainScript == Source(TRUE, << FunctionDef("run", <<NoAnnotation>>) >>)

\* A text that is not Python
UnparsableScript == Source(FALSE, <<>>)

\* Script texts a user uploads.
Contents == {MainScript, NoMainScript, UnparsableScript}

\* def main(data): return data
EchoScript ==
    Text(TRUE, << FunctionDef("main", <<Annotation("Name", "dict")>>) >>, "data", "defs")

\* def main(data: dict) -> dict: return {"doubled": data.get("value", 0) * 2}
DoubledScript ==
    Text(TRUE, << FunctionDef("main", <<Annotation("Name", "dict")>>) >>, "doubled", "defs")

\* DoubledScript followed by
\* if __name__ == "__main__": print(json.dumps(main(INPUT_DATA)))
DoubledMainGuard ==
    Text(TRUE, << FunctionDef("main", <<Annotation("Name", "dict")>>) >>, "doubled",
         "call_main")

\* EchoScript followed by print(json.dumps(INPUT_DATA))
PrintInputScript ==
    Text(TRUE, << FunctionDef("main", <<Annotation("Name", "dict")>>) >>, "data",
         "print_input")

\* EchoScript followed by raise RuntimeError()
RaisingScript ==
    Text(TRUE, << FunctionDef("main", <<Annotation("Name", "dict")>>) >>, "data", "raise")

\* EchoScript followed by while True: pass
LoopScript ==
    Text(TRUE, << FunctionDef("main", <<Annotation("Name", "dict")>>) >>, "data", "loop")

\* No main: def run(x) and print(json.dumps(INPUT_DATA))
NoMainPrintScript ==
    Text(TRUE, << FunctionDef("run", <<NoAnnotation>>) >>, "other", "print_input")

\* No main: def run(x) and while True: pass
NoMainLoopScript ==
    Text(TRUE, << FunctionDef("run", <<NoAnnotation>>) >>, "other", "loop")

\* Texts scripts/test.py can hold, uploaded or edited on disk
DiskTexts ==
    { SampleScript, EchoScript, DoubledScript, DoubledMainGuard, PrintInputScript,
      RaisingScript, LoopScript, NoMainScript, NoMainPrintScript, NoMainLoopScript,
      UnparsableScript }

\* The validator's messages are Russian in the source; they are given here
\* in English.  Each of the three names 'main'.
MissingMainMessage ==
    <<"Script must contain function 'main' with one argument of type dict">>

BadArgumentCountMessage ==
    <<"Function 'main' must take exactly one argument of type dict">>

BadArgumentTypeMessage == <<"Argument of function 'main' must have type dict">>

SyntaxErrorMessage == <<"Invalid Python syntax">>

\* A return value of validate_script_content: (is_valid, error_message)
Verdict(is_valid, error_message) ==
    [is_valid |-> is_valid, error_message |-> error_message]

\* isinstance(node, ast.FunctionDef) and node.name == "main", for the nodes
\* of content.functions
MainNodes(content) ==
    {i \in DOMAIN content.functions :
        /\ content.functions[i].type = "FunctionDef"
        /\ content.functions[i].name = "main"}

\* is_dict_type for an annotation that is present
is_dict_type(annotation) ==
    IF annotation.kind = "Name" THEN annotation.id \in {"dict", "Dict"}
    ELSE IF annotation.kind = "Subscript"
    THEN annotation.of = "Name" /\ annotation.id \in {"dict", "Dict"}
    ELSE FALSE

\* The checks on the main function found
check_main_function(main_function) ==
    LET args == main_function.args.args
    IN  IF Len(args) # 1 THEN Verdict(FALSE, BadArgumentCountMessage)
        ELSE IF args[1].kind # "none" /\ ~is_dict_type(args[1])
        THEN Verdict(FALSE, BadArgumentTypeMessage)
        ELSE Verdict(TRUE, <<>>)

\* validate_script_content that looks for main in the module body only.
validate_module_body_only(content) ==
    IF ~content.parses THEN Verdict(FALSE, SyntaxErrorMessage)
    ELSE LET mains == {i \in MainNodes(content) :
                          content.functions[i].parent = "Module"}
         IN  IF mains = {} THEN Verdict(FALSE, MissingMainMessage)
             ELSE check_main_function(
                      content.functions[CHOOSE i \in mains : \A j \in mains : i <= j])

\* validate_script_content that does not look at the annotation.
validate_any_annotation(content) ==
    IF ~content.parses THEN Verdict(FALSE, SyntaxErrorMessage)
    ELSE LET mains == MainNodes(content)
         IN  IF mains = {} THEN Verdict(FALSE, MissingMainMessage)
             ELSE IF Len(content.functions[CHOOSE i \in mains :
                                               \A j \in mains : i <= j].args.args) # 1
             THEN Verdict(FALSE, BadArgumentCountMessage)
             ELSE Verdict(TRUE, <<>>)

\* validate_script_content that accepts every text that parses.
validate_syntax_only(content) ==
    IF ~content.parses THEN Verdict(FALSE, SyntaxErrorMessage)
    ELSE Verdict(TRUE, <<>>)

\* validate_script_content(content): the first FunctionDef named main that
\* ast.walk yields is the one checked.
validate_script_content(content) ==
    IF ~content.parses THEN Verdict(FALSE, SyntaxErrorMessage)
    ELSE LET mains == MainNodes(content)
         IN  IF mains = {} THEN Verdict(FALSE, MissingMainMessage)
             ELSE check_main_function(
                      content.functions[CHOOSE i \in mains : \A j \in mains : i <= j])

\* Files of the deployment: the application's own source beside the scripts
\* directory, and the sample scripts the repository ships in it.
InitFiles ==
    (<<<<"app">>, <<"src">>, <<"app", ".py">>>> :> AppSource)
    @@ (scripts_dir \o <<<<"test", ".py">>>> :> SampleScript)
    @@ (scripts_dir \o <<<<"test">>, <<"test_args_in_request_args_in_response", ".py">>>>
            :> SampleScript)

\* --------------------------------------------- scripts_manager/service

User(id, is_admin) == [id |-> id, is_admin |-> is_admin]

Users == {User(1, FALSE), User(2, TRUE)}

FolderNames == {<<"geology">>}

Filenames == {<<"test", ".py">>, <<"notes", ".txt">>}

\* str.endswith(".py")
endswith_py(filename) == filename # <<>> /\ Last(filename) = ".py"

\* ScriptsManagerService._build_logical_path; folder_path is <<>> for no folder
build_logical_path(filename, folder_path) ==
    IF folder_path # <<>> THEN folder_path \o <<"/">> \o filename ELSE filename

\* The folder path create_folder builds
build_folder_path(name, parent_path) ==
    IF parent_path # <<>> THEN parent_path \o <<"/">> \o name ELSE name

\* self.scripts_dir / storage_filename
storage_path(storage_filename) == JoinPath(scripts_dir, storage_filename)

RECURSIVE unique_storage_filename(_, _)
\* create_script's loop: the first name_part_<counter>.py that is no file
unique_storage_filename(name_part, counter) ==
    LET candidate == name_part \o <<"_", ToString(counter), ".py">>
    IN  IF exists(storage_path(candidate))
        THEN unique_storage_filename(name_part, counter + 1)
        ELSE candidate

\* A create_script that stores a new script under its filename as it is.
new_storage_filename_plain(filename) == filename

\* The storage name create_script gives a new script
new_storage_filename(filename) ==
    IF exists(storage_path(filename))
    THEN unique_storage_filename(Front(filename), 1)
    ELSE filename

\* An exception of scripts_manager/exceptions.py with its message
Raised(type, message) == [type |-> type, message |-> message]

NoError == Raised("none", <<>>)

\* create_script's message for content the validator rejects: the
\* validator's message when it names main, else prefixed
validation_message(message) ==
    IF \E i \in DOMAIN message :
           message[i] \in {MissingMainMessage[1], BadArgumentCountMessage[1],
                             BadArgumentTypeMessage[1]}
    THEN message
    ELSE <<"Script validation failed: ">> \o message

NoCreated == [call |-> "none", content |-> MainScript, logical_path |-> <<>>,
              replace |-> FALSE, error |-> NoError]

NoVerdict == Verdict(FALSE, <<"not validated">>)

NoPrevious ==
    [script_path |-> <<>>, json_data |-> <<>>, temp_dir |-> 0, child |-> "none",
     response |-> NoResponse]

FolderById(id) == {f \in folders : f.id = id}

ScriptByLogicalPath(lp) == {s \in scripts : s.logical_path = lp}

ScriptById(id) == {s \in scripts : s.id = id}

\* A call of the repository: the operation, the id and the user it was given
\* and what it raised
Call(name, id, user, error) == [call |-> name, id |-> id, user |-> user, error |-> error]

NoCall == Call("none", 0, User(0, FALSE), NoError)

\* The unique constraints of the columns folders.path and
\* scripts.logical_path, which the database checks at flush
unique(folder_rows, script_rows) ==
    /\ \A f, g \in folder_rows : f.path = g.path => f.id = g.id
    /\ \A s, t \in script_rows : s.logical_path = t.logical_path => s.id = t.id

\* script.folder and folder.parent: the path of the row id names, <<>> for
\* no row
path_of(id) ==
    IF FolderById(id) # {} THEN (CHOOSE f \in FolderById(id) : TRUE).path ELSE <<>>

\* What update_script raises for its arguments; filename is <<>> for None
update_script_raises(script_id, filename, user) ==
    LET found == ScriptById(script_id)
        script == CHOOSE x \in found : TRUE
        new_logical_path == build_logical_path(filename, path_of(script.folder_id))
    IN  IF found = {}
        THEN Raised("ResourceNotFoundError",
                    <<"Script with id ", ToString(script_id), " not found">>)
        ELSE IF script.created_by_id # user.id /\ ~user.is_admin
        THEN Raised("PermissionError",
                    <<"You don't have permission to edit this script">>)
        ELSE IF filename # <<>> /\ ~endswith_py(filename)
        THEN Raised("ValidationError", <<"Script filename must have .py extension">>)
        ELSE IF /\ filename # <<>>
                /\ \E existing \in ScriptByLogicalPath(new_logical_path) :
                       existing.id # script_id
        THEN Raised("ConflictError", <<"Script already exists">>)
        ELSE NoError

\* What delete_script raises for its arguments
delete_script_raises(script_id, user) ==
    IF ScriptById(script_id) = {}
    THEN Raised("ResourceNotFoundError",
                <<"Script with id ", ToString(script_id), " not found">>)
    ELSE IF /\ (CHOOSE x \in ScriptById(script_id) : TRUE).created_by_id # user.id
            /\ ~user.is_admin
    THEN Raised("PermissionError",
                <<"You don't have permission to delete this script">>)
    ELSE NoError

RECURSIVE update_folder_path_recursive(_, _)
\* _update_folder_path_recursive: the new path of the folder and of every
\* folder below it, as rows [id, path]
update_folder_path_recursive(folder, new_base_path) ==
    {[id |-> folder.id, path |-> new_base_path]}
    \cup UNION { update_folder_path_recursive(subfolder,
                     new_base_path \o <<"/">> \o subfolder.name) :
                 subfolder \in {f \in folders : f.parent_id = folder.id} }

\* The rows of folders after update_folder's changes to folder
renamed_folders(folder, name) ==
    LET new_path == build_folder_path(name, path_of(folder.parent_id))
        paths == update_folder_path_recursive(folder, new_path)
        new_row(f) ==
            IF \E r \in paths : r.id = f.id
            THEN [f EXCEPT !.path = (CHOOSE r \in paths : r.id = f.id).path,
                           !.name = IF f.id = folder.id THEN name ELSE f.name]
            ELSE f
    IN  {new_row(f) : f \in folders}

\* The rows of scripts after update_folder's changes to folder
renamed_scripts(folder, name) ==
    LET new_path == build_folder_path(name, path_of(folder.parent_id))
        paths == update_folder_path_recursive(folder, new_path)
        new_row(x) ==
            IF \E r \in paths : r.id = x.folder_id
            THEN [x EXCEPT !.logical_path =
                      (CHOOSE r \in paths : r.id = x.folder_id).path
                          \o <<"/">> \o x.filename]
            ELSE x
    IN  {new_row(x) : x \in scripts}

\* What update_folder raises for its arguments; name is <<>> for None
update_folder_raises(folder_id, name, user) ==
    LET found == FolderById(folder_id)
        folder == CHOOSE f \in found : TRUE
        new_path == build_folder_path(name, path_of(folder.parent_id))
    IN  IF found = {}
        THEN Raised("ResourceNotFoundError",
                    <<"Folder with id ", ToString(folder_id), " not found">>)
        ELSE IF folder.created_by_id # user.id /\ ~user.is_admin
        THEN Raised("PermissionError",
                    <<"You don't have permission to edit this folder">>)
        ELSE IF name # <<>> /\ \E f \in folders : f.path = new_path
        THEN Raised("ConflictError", <<"Folder already exists">>)
        ELSE IF /\ name # <<>>
                /\ ~unique(renamed_folders(folder, name), renamed_scripts(folder, name))
        THEN Raised("IntegrityError", <<"UNIQUE constraint failed">>)
        ELSE NoError

\* A check that looks at the folder's creator only.
check_folder_only(folder, user) ==
    user.is_admin \/ folder.created_by_id = user.id

RECURSIVE check_folder_deletion_permissions(_, _)
\* _check_folder_deletion_permissions: can_delete
check_folder_deletion_permissions(folder, user) ==
    IF user.is_admin THEN TRUE
    ELSE /\ folder.created_by_id = user.id
         /\ \A subfolder \in {f \in folders : f.parent_id = folder.id} :
                check_folder_deletion_permissions(subfolder, user)
         /\ \A x \in {y \in scripts : y.folder_id = folder.id} :
                x.created_by_id = user.id

RECURSIVE collect_folder_ids(_)
\* _collect_folder_ids
collect_folder_ids(folder) ==
    {folder.id}
    \cup UNION { collect_folder_ids(subfolder) :
                 subfolder \in {f \in folders : f.parent_id = folder.id} }

RECURSIVE collect_folder_scripts(_)
\* _collect_folder_scripts
collect_folder_scripts(folder) ==
    {x \in scripts : x.folder_id = folder.id}
    \cup UNION { collect_folder_scripts(subfolder) :
                 subfolder \in {f \in folders : f.parent_id = folder.id} }

\* What delete_folder raises for its arguments
delete_folder_raises(folder_id, user) ==
    IF FolderById(folder_id) = {}
    THEN Raised("ResourceNotFoundError",
                <<"Folder with id ", ToString(folder_id), " not found">>)
    ELSE IF ~check_folder_deletion_permissions(CHOOSE f \in FolderById(folder_id) : TRUE,
                                                user)
    THEN Raised("PermissionError", <<"You are not the creator">>)
    ELSE NoError

\* The files left when those at paths are unlinked
unlinked(f, paths) == [x \in DOMAIN f \ paths |-> f[x]]

\* ------------------------------------------------------ auth/dependencies

\* The access tokens auth/service.create_access_token has issued, with the
\* user id in their "sub" field
Tokens == (<<"token", "1">> :> 1) @@ (<<"token", "2">> :> 2)

\* HTTPBearer and get_current_user on an Authorization header: the user of
\* the token, or an HTTPException when there is no header, the token does
\* not decode or names no user.
get_current_user(credentials) ==
    IF credentials = <<>> \/ credentials[1] # "Bearer "
    THEN [ok |-> FALSE, user |-> User(0, FALSE)]
    ELSE IF Tail(credentials) \notin DOMAIN Tokens
    THEN [ok |-> FALSE, user |-> User(0, FALSE)]
    ELSE IF \A u \in Users : u.id # Tokens[Tail(credentials)]
    THEN [ok |-> FALSE, user |-> User(0, FALSE)]
    ELSE [ok |-> TRUE,
          user |-> CHOOSE u \in Users : u.id = Tokens[Tail(credentials)]]

\* No execution in the other server process
NoPeer == [pc |-> "idle", validated_path |-> <<>>, wrapper_script |-> 0]

\* ---------------------------------------------------------------- inputs

\* Authorization headers of requests: none, a forged token and the tokens
\* of the two users
Authorizations ==
    { <<>>, <<"Bearer ", "forged">>, <<"Bearer ", "token", "1">>,
      <<"Bearer ", "token", "2">> }

\* json_data and params fields of requests to the endpoint: absent, an
\* empty object, an object and a text that is no JSON
FormFields ==
    { <<>>,
      <<"{", "}">>,
      <<"{", "\"flag\"", ":", " ", "true", "}">>,
      <<"not", " ", "json">> }

\* The files of a request, by their sizes: none, a small one, one of
\* max_file_size bytes and one of a byte more
Uploads == { <<>>, <<1>>, <<max_file_size>>, <<max_file_size + 1>> }

\* Folder names of a tree of folders
TreeNames == {<<"geology">>, <<"test">>}

\* Script filenames in a tree of folders; scripts/test is a directory of the
\* deployment
TreeFilenames == {<<"test", ".py">>, <<"test", "/", "test", ".py">>}

\* The user who calls the repository on a tree of folders
Administrator == User(2, TRUE)

\* Script filenames stored side by side
StorageFilenames == {<<"test", ".py">>, <<"test", "_", "1", ".py">>}

\* Script texts the validator accepts
StorageContents == {MainScript, SampleScript}

\* script_path values of execution requests
TargetPaths ==
    { <<"test", ".py">>,
      <<"/", "test", ".py">>,
      <<"geology", "/", "test", ".py">>,
      <<"test", "_", "1", ".py">>,
      <<"test", "/", "test_args_in_request_args_in_response", ".py">>,
      <<"test", "/", "..", "/", "test", ".py">>,
      <<"test">>,
      <<"missing", ".py">>,
      <<"..", "/", "src", "/", "app", ".py">>,
      <<"/", "/", "..", "/", "src", "/", "app", ".py">>,
      <<"test", "/", "..", "/", "..", "/", "src", "/", "app", ".py">>,
      <<"/", "app", "/", "src", "/", "app", ".py">> }

\* json_data fields of execution requests: absent, objects, an array, a
\* string and a text that is no JSON
JsonData ==
    { <<>>,
      <<"{", "\"value\"", ":", " ", "21", "}">>,
      <<"{", "\"flag\"", ":", " ", "true", "}">>,
      <<"[", "42", "]">>,
      <<"\"text\"">>,
      <<"not", " ", "json">> }

\* Requests to a deployment's scripts/test.py
HarnessPaths == { <<"test", ".py">>, <<"missing", ".py">> }

HarnessJsonData ==
    { <<>>,
      <<"{", "\"value\"", ":", " ", "21", "}">>,
      <<"{", "\"flag\"", ":", " ", "true", "}">>,
      <<"[", "42", "]">> }

\* Requests for scripts of the repository: logical paths and storage names
ServicePaths ==
    { <<"test", ".py">>,
      <<"geology", "/", "test", ".py">>,
      <<"test", "_", "1", ".py">>,
      <<"missing", ".py">> }

ReturnCodes == {0, 1}

\* What a child writes to standard output
Stdouts ==
    { <<>>,
      <<" ", "\n">>,
      <<"{", "}", "\n">>,
      <<"{", "\"doubled\"", ":", " ", "42", "}", "\n">>,
      <<"42", "\n">>,
      <<"[", "42", ",", "null", "]", "\n">>,
      <<"\"text\"", "\n">>,
      <<"null", "\n">>,
      <<"true", "\n">>,
      <<"not", " ", "json", "\n">>,
      <<"{", "\"doubled\"", ":", "\n">> }

\* What a child writes to standard error
Stderrs == { <<>>, <<"Traceback", "\n">> }

\* Annotations a parameter of main can carry: none, dict, Dict, Mapping,
\* int, dict[...], Dict[...], list[...], Mapping[...], typing.Dict,
\* typing.Dict[...], "dict" and dict | None
Annotations ==
    { NoAnnotation,
      Annotation("Name", "dict"), Annotation("Name", "Dict"),
      Annotation("Name", "Mapping"), Annotation("Name", "int"),
      Subscript("Name", "dict"), Subscript("Name", "Dict"),
      Subscript("Name", "list"), Subscript("Name", "Mapping"),
      Annotation("Attribute", "typing.Dict"), Subscript("Attribute", "typing.Dict"),
      Annotation("Constant", "dict"), Annotation("BinOp", "dict | None") }

\* Parameter lists: one positional parameter with each annotation, and
\* (), (a, b), (a, /), (a, /, b), (*args), (a, *args), (a, *, k), (*, k),
\* (a, **kw), (**kw), (a, *args, **kw)
ArgumentLists ==
    { arguments(<<>>, <<a>>, <<>>, <<>>, <<>>) : a \in Annotations } \cup
    { arguments(<<>>, <<>>, <<>>, <<>>, <<>>),
      arguments(<<>>, <<NoAnnotation, NoAnnotation>>, <<>>, <<>>, <<>>),
      arguments(<<NoAnnotation>>, <<>>, <<>>, <<>>, <<>>),
      arguments(<<NoAnnotation>>, <<NoAnnotation>>, <<>>, <<>>, <<>>),
      arguments(<<>>, <<>>, <<NoAnnotation>>, <<>>, <<>>),
      arguments(<<>>, <<NoAnnotation>>, <<NoAnnotation>>, <<>>, <<>>),
      arguments(<<>>, <<NoAnnotation>>, <<>>, <<NoAnnotation>>, <<>>),
      arguments(<<>>, <<>>, <<>>, <<NoAnnotation>>, <<>>),
      arguments(<<>>, <<Annotation("Name", "dict")>>, <<>>, <<>>, <<NoAnnotation>>),
      arguments(<<>>, <<>>, <<>>, <<>>, <<NoAnnotation>>),
      arguments(<<>>, <<NoAnnotation>>, <<NoAnnotation>>, <<>>, <<NoAnnotation>>) }

\* Function definitions: def or async def, named main or not quite, in the
\* module body, in a function or in a class
DefNodes ==
    [type : {"FunctionDef", "AsyncFunctionDef"}, name : {"main", "Main", "helper"},
     parent : {"Module", "FunctionDef", "ClassDef"}, args : ArgumentLists]

\* A definition that may stand before another one in a text of two
FirstNodes ==
    {n \in DefNodes : /\ n.parent = "Module"
                      /\ n.args \in {arguments(<<>>, <<NoAnnotation>>, <<>>, <<>>, <<>>),
                                     arguments(<<>>, <<>>, <<>>, <<>>, <<>>)}}

\* Texts given to the validator: one that does not parse, and texts with no,
\* one or two function definitions
Sources ==
    {Source(FALSE, <<>>), Source(TRUE, <<>>)}
    \cup {Source(TRUE, <<n>>) : n \in DefNodes}
    \cup {Source(TRUE, <<m, n>>) : m \in FirstNodes, n \in DefNodes}

\* ------------------------------------------------------------------ Init

Idle ==
    /\ pc = "idle"
    /\ script_path = <<>>
    /\ json_data = <<>>
    /\ input_data = NoInput
    /\ validated_path = <<>>
    /\ temp_dir = 0
    /\ wrapper_script = 0
    /\ created_artifact = 0
    /\ child = "none"
    /\ clock = 0
    /\ executed = <<>>
    /\ result = NoResult
    /\ response = NoResponse
    /\ authorization = <<>>
    /\ params = <<>>
    /\ uploads = <<>>
    /\ runs = 0

\* The service after start
Started ==
    /\ max_execution_time \in 1..MaxTimeout
    /\ folders = {}
    /\ scripts = {}
    /\ next_folder_id = 1
    /\ next_script_id = 1
    /\ tmp_wrappers = <<>>
    /\ tmp_dirs = {}
    /\ calls = 0
    /\ previous = NoPrevious
    /\ created = NoCreated
    /\ backlog = 0
    /\ peer = NoPeer
    /\ called = NoCall
    /\ Idle

Init ==
    /\ Started
    /\ files = InitFiles
    /\ validated_content = MainScript
    /\ verdict = NoVerdict

\* A text to validate
ValidateInit ==
    /\ Started
    /\ files = InitFiles
    /\ validated_content \in Sources
    /\ verdict = NoVerdict

\* The service on a deployment whose scripts/test.py is one of DiskTexts
HarnessInit ==
    /\ Started
    /\ files \in {(scripts_dir \o <<<<"test", ".py">>>> :> t) @@ InitFiles : t \in DiskTexts}
    /\ validated_content = MainScript
    /\ verdict = NoVerdict

\* --------------------------------------------------- repository actions

\* ScriptsManagerService.create_folder
CreateFolder(name, parent_id, user) ==
    /\ pc = "idle"
    /\ LET parents == FolderById(parent_id)
           parent_path == IF parent_id # 0 /\ parents # {}
                          THEN (CHOOSE f \in parents : TRUE).path ELSE <<>>
           folder_path == build_folder_path(name, parent_path)
       IN  IF (parent_id # 0 /\ parents = {})
              \/ \E f \in folders : f.path = folder_path
           THEN UNCHANGED <<folders, next_folder_id>>
           ELSE /\ folders' = folders \cup
                        {[id |-> next_folder_id, name |-> name, path |-> folder_path,
                          parent_id |-> parent_id, created_by_id |-> user.id]}
                /\ next_folder_id' = next_folder_id + 1
    /\ UNCHANGED <<max_execution_time, server_vars, validator_vars, previous, created, files,
                   scripts, next_script_id, tmp_wrappers, tmp_dirs, call_vars>>

\* What create_script raises for its arguments, in the order of its checks;
\* NoError when it raises nothing.
create_script_raises(filename, folder_id, content, user, replace) ==
    LET validation == validate_script_content(content)
        found == FolderById(folder_id)
        folder_path == IF folder_id # 0 /\ found # {}
                       THEN (CHOOSE f \in found : TRUE).path ELSE <<>>
        existing == ScriptByLogicalPath(build_logical_path(filename, folder_path))
    IN  IF ~endswith_py(filename)
        THEN Raised("ValidationError", <<"Script filename must have .py extension">>)
        ELSE IF ~validation.is_valid
        THEN Raised("ValidationError", validation_message(validation.error_message))
        ELSE IF folder_id # 0 /\ found = {}
        THEN Raised("ResourceNotFoundError",
                    <<"Folder with id ", ToString(folder_id), " not found">>)
        ELSE IF existing # {} /\ ~replace
        THEN Raised("ConflictError", <<"Script already exists. Use replace=True to replace it.">>)
        ELSE IF /\ existing # {}
                /\ (CHOOSE e \in existing : TRUE).created_by_id # user.id
                /\ ~user.is_admin
        THEN Raised("PermissionError",
                    <<"You don't have permission to replace this script">>)
        ELSE IF /\ existing = {}
                /\ Front(storage_path(new_storage_filename(filename))) \notin Dirs
        THEN Raised("FileNotFoundError", <<"No such file or directory">>)
        ELSE NoError

\* ScriptsManagerService.create_script
CreateScript(filename, folder_id, content, user, replace) ==
    /\ pc = "idle"
    /\ LET found == FolderById(folder_id)
           folder_path == IF folder_id # 0 /\ found # {}
                          THEN (CHOOSE f \in found : TRUE).path ELSE <<>>
           logical_path == build_logical_path(filename, folder_path)
           existing == ScriptByLogicalPath(logical_path)
           error == create_script_raises(filename, folder_id, content, user, replace)
       IN  /\ IF error # NoError
              THEN UNCHANGED <<files, scripts, next_script_id>>
              ELSE IF existing # {}
              THEN LET existing_script == CHOOSE e \in existing : TRUE
                   IN  /\ scripts' = (scripts \ {existing_script}) \cup
                               {[existing_script EXCEPT !.filename = filename,
                                                        !.created_by_id = user.id]}
                       /\ files' = (storage_path(existing_script.storage_filename)
                                        :> content) @@ files
                       /\ UNCHANGED next_script_id
              ELSE /\ next_script_id <= MaxScripts
                   /\ LET storage_filename == new_storage_filename(filename)
                      IN  /\ files' = (storage_path(storage_filename) :> content) @@ files
                          /\ scripts' = scripts \cup
                                 {[id |-> next_script_id, filename |-> filename,
                                   storage_filename |-> storage_filename,
                                   logical_path |-> logical_path,
                                   folder_id |-> folder_id,
                                   created_by_id |-> user.id]}
                   /\ next_script_id' = next_script_id + 1
    /\ UNCHANGED <<max_execution_time, server_vars, validator_vars, previous, folders,
                   next_folder_id, tmp_wrappers, tmp_dirs, call_vars>>

\* What a create_script call was given and raised
Created(filename, folder_id, content, user, replace) ==
    [call |-> "create_script", content |-> content,
     logical_path |-> build_logical_path(filename, path_of(folder_id)),
     replace |-> replace,
     error |-> create_script_raises(filename, folder_id, content, user, replace)]

\* ScriptsManagerService.update_script, renaming the script when filename is
\* not <<>>
UpdateScript(script_id, filename, user) ==
    /\ pc = "idle"
    /\ LET error == update_script_raises(script_id, filename, user)
       IN  /\ called' = NoCall
           /\ IF error # NoError \/ filename = <<>>
              THEN UNCHANGED scripts
              ELSE LET script == CHOOSE x \in ScriptById(script_id) : TRUE
                   IN  scripts' = (scripts \ {script}) \cup
                           {[script EXCEPT
                                 !.filename = filename,
                                 !.logical_path =
                                     build_logical_path(filename,
                                                        path_of(script.folder_id))]}
    /\ UNCHANGED <<max_execution_time, server_vars, validator_vars, previous, created,
                   files, folders, next_folder_id, next_script_id, tmp_wrappers,
                   tmp_dirs, call_vars>>

\* ScriptsManagerService.delete_script
DeleteScript(script_id, user) ==
    /\ pc = "idle"
    /\ LET error == delete_script_raises(script_id, user)
       IN  /\ called' = NoCall
           /\ IF error # NoError
              THEN UNCHANGED <<files, scripts>>
              ELSE LET script == CHOOSE x \in ScriptById(script_id) : TRUE
                   IN  /\ files' = unlinked(files,
                                             {storage_path(script.storage_filename)})
                       /\ scripts' = scripts \ {script}
    /\ UNCHANGED <<max_execution_time, server_vars, validator_vars, previous, created,
                   folders, next_folder_id, next_script_id, tmp_wrappers, tmp_dirs,
                   call_vars>>

\* ScriptsManagerService.update_folder, renaming the folder when name is not
\* <<>>: the paths of the folder and of all below it are rewritten, and the
\* flush fails when the new rows break a unique constraint.
UpdateFolder(folder_id, name, user) ==
    /\ pc = "idle"
    /\ LET error == update_folder_raises(folder_id, name, user)
       IN  /\ called' = Call("update_folder", folder_id, user, error)
           /\ IF error # NoError \/ name = <<>>
              THEN UNCHANGED <<folders, scripts>>
              ELSE LET folder == CHOOSE f \in FolderById(folder_id) : TRUE
                   IN  /\ folders' = renamed_folders(folder, name)
                       /\ scripts' = renamed_scripts(folder, name)
    /\ UNCHANGED <<max_execution_time, server_vars, validator_vars, previous, created,
                   files, next_folder_id, next_script_id, tmp_wrappers, tmp_dirs,
                   call_vars>>

\* ScriptsManagerService.delete_folder
DeleteFolder(folder_id, user) ==
    /\ pc = "idle"
    /\ LET error == delete_folder_raises(folder_id, user)
       IN  /\ called' = Call("delete_folder", folder_id, user, error)
           /\ IF error # NoError
              THEN UNCHANGED <<files, folders, scripts>>
              ELSE LET folder == CHOOSE f \in FolderById(folder_id) : TRUE
                       all_scripts == collect_folder_scripts(folder)
                       folder_ids_to_delete == collect_folder_ids(folder)
                   IN  /\ files' = unlinked(files,
                                      {storage_path(x.storage_filename) : x \in all_scripts})
                       /\ scripts' = {x \in scripts : x.folder_id \notin folder_ids_to_delete}
                       /\ folders' = {f \in folders : f.id \notin folder_ids_to_delete}
    /\ UNCHANGED <<max_execution_time, server_vars, validator_vars, previous, created,
                   next_folder_id, next_script_id, tmp_wrappers, tmp_dirs, call_vars>>

\* validate_script_content is applied to validated_content.
Validate ==
    /\ verdict = NoVerdict
    /\ verdict' = validate_script_content(validated_content)
    /\ UNCHANGED <<max_execution_time, called, server_vars, repo_vars, tmp_wrappers, tmp_dirs, call_vars,
                   previous, created, validated_content>>

\* ----------------------------------------------------- execution actions

\* Leaving execute_script and the endpoint with response r: the finally
\* clause has run on tmp_wrappers by then.
Return(r) ==
    /\ response' = r
    /\ pc' = "returned"

\* POST /scripts/{script_path} with an Authorization header, the form
\* fields json_data and params and uploaded files of the sizes up: the
\* endpoint decodes the fields, reads the files, and calls execute_script,
\* which validates the path and prepares the input (a temp directory for
\* uploads, which mkdtemp cannot make when tmp_full).  The endpoint declares
\* no dependency on the Authorization header.
Post(credentials, sp, jd, ps, up, tmp_full) ==
    /\ pc = "idle"
    /\ calls < MaxCalls
    /\ authorization' = credentials
    /\ script_path' = sp
    /\ json_data' = jd
    /\ params' = ps
    /\ uploads' = up
    /\ created' = NoCreated
    /\ LET parsed == json_loads(jd)
           parsed_json_data == IF jd # <<>> THEN parsed.value ELSE None
           decoded == json_loads(ps)
           parsed_params == IF ps # <<>> THEN decoded.value ELSE None
           v == validate_script_path(sp)
       IN  IF jd # <<>> /\ ~parsed.ok
           THEN /\ Return(internal_server_error(<<"400: Invalid JSON data">>))
                /\ UNCHANGED <<validated_path, input_data, temp_dir, tmp_dirs>>
           ELSE IF ps # <<>> /\ ~decoded.ok
           THEN /\ Return(internal_server_error(<<"400: Invalid params JSON">>))
                /\ UNCHANGED <<validated_path, input_data, temp_dir, tmp_dirs>>
           ELSE IF \E i \in DOMAIN up : up[i] > max_file_size
           THEN /\ Return(internal_server_error(<<"413: File exceeds maximum size">>))
                /\ UNCHANGED <<validated_path, input_data, temp_dir, tmp_dirs>>
           ELSE IF ~v.ok
           THEN /\ Return(HTTPException(404, v.error))
                /\ UNCHANGED <<validated_path, input_data, temp_dir, tmp_dirs>>
           ELSE IF "ValueError" \in {update_raises(parsed_json_data),
                                     update_raises(parsed_params)}
                   /\ update_raises(parsed_json_data) # "TypeError"
           THEN /\ Return(HTTPException(404, <<"dictionary update sequence element">>))
                /\ UNCHANGED <<validated_path, input_data, temp_dir, tmp_dirs>>
           ELSE IF "TypeError" \in {update_raises(parsed_json_data),
                                    update_raises(parsed_params)}
           THEN /\ Return(internal_server_error(<<"TypeError">>))
                /\ UNCHANGED <<validated_path, input_data, temp_dir, tmp_dirs>>
           ELSE IF up # <<>> /\ tmp_full
           THEN /\ Return(internal_server_error(<<"OSError">>))
                /\ UNCHANGED <<validated_path, input_data, temp_dir, tmp_dirs>>
           ELSE /\ validated_path' = v.path
                /\ pc' = "prepared"
                /\ LET data == updated(prepared_data(parsed_json_data), parsed_params)
                   IN  IF up # <<>>
                       THEN \E dir \in TmpNames \ tmp_dirs :
                                /\ temp_dir' = dir
                                /\ tmp_dirs' = tmp_dirs \cup {dir}
                                /\ input_data' = InputData(data, dir)
                       ELSE /\ input_data' = InputData(data, 0)
                            /\ UNCHANGED <<temp_dir, tmp_dirs>>
                /\ UNCHANGED response
    /\ UNCHANGED <<max_execution_time, called, peer, validator_vars, previous, repo_vars,
                   tmp_wrappers, calls, wrapper_script, created_artifact, child, clock,
                   executed, result, runs>>

\* A request as examples/execute_script_example.py sends it, with no
\* Authorization header and no params field, that the server takes up as it
\* comes in.
Request(sp, jd, with_files, tmp_full) ==
    /\ Post(<<>>, sp, jd, <<>>, IF with_files THEN <<1>> ELSE <<>>, tmp_full)
    /\ UNCHANGED backlog

\* _create_wrapper_script: NamedTemporaryFile(delete=False), write, close.
\* The file gets a name that is not in use.
CreateWrapper ==
    /\ pc = "prepared"
    /\ \/ \E n \in mkstemp(tmp_wrappers) :
              /\ tmp_wrappers' = (n :> validated_path) @@ tmp_wrappers
              /\ wrapper_script' = n
              /\ created_artifact' = n
              /\ pc' = "wrapped"
              /\ UNCHANGED response
       \/ \* NamedTemporaryFile raises OSError: no file was made
          /\ Return(endpoint_response(reraise(<<"OSError">>), 0))
          /\ tmp_wrappers' = finally_unlink(wrapper_script, tmp_wrappers)
          /\ UNCHANGED <<wrapper_script, created_artifact>>
       \/ \* write or close raises OSError (the disk is full): the file was
          \* made, and wrapper_script is still None
          \E n \in mkstemp(tmp_wrappers) :
              /\ created_artifact' = n
              /\ tmp_wrappers' = finally_unlink(wrapper_script,
                                     (n :> validated_path) @@ tmp_wrappers)
              /\ Return(endpoint_response(reraise(<<"OSError">>), 0))
              /\ UNCHANGED wrapper_script
    /\ UNCHANGED <<max_execution_time, called, server_vars, validator_vars, previous, created, repo_vars,
                   tmp_dirs, calls, script_path, json_data,
                   authorization, params, uploads, runs, input_data, validated_path,
                   temp_dir, child, clock, executed, result>>

\* subprocess.run starts the child on the wrapper, or Popen raises OSError.
Spawn ==
    /\ pc = "wrapped"
    /\ runs' = subprocess_run(runs)
    /\ \/ /\ child' = "running"
          /\ clock' = 0
          /\ executed' = tmp_wrappers[wrapper_script]
          /\ pc' = "running"
          /\ UNCHANGED <<response, tmp_wrappers>>
       \/ /\ Return(endpoint_response(reraise(<<"OSError">>), 0))
          /\ tmp_wrappers' = finally_unlink(wrapper_script, tmp_wrappers)
          /\ UNCHANGED <<child, clock, executed>>
    /\ UNCHANGED <<max_execution_time, called, server_vars, validator_vars, previous, created, repo_vars,
                   tmp_dirs, calls, script_path, json_data,
                   authorization, params, uploads, input_data, validated_path,
                   temp_dir, wrapper_script, created_artifact, result>>

\* A second passes while subprocess.run waits for the child.
Tick ==
    /\ pc = "running"
    /\ ~deadline_passed(clock)
    /\ clock < MaxTimeout
    /\ clock' = clock + 1
    /\ UNCHANGED <<max_execution_time, called, server_vars, validator_vars, previous, created, repo_vars,
                   tmp_wrappers, tmp_dirs, pc, calls, script_path, json_data,
                   authorization, params, uploads, runs,
                   input_data, validated_path, temp_dir, wrapper_script,
                   created_artifact, child, executed, result, response>>

\* The child exits before the deadline: subprocess.run returns, the upload
\* directory is removed, the output is interpreted, the wrapper is unlinked.
ChildExit(returncode, stdout, stderr) ==
    /\ pc = "running"
    /\ ~deadline_passed(clock)
    /\ child' = "exited"
    /\ result' = [returncode |-> returncode, stdout |-> stdout, stderr |-> stderr]
    /\ tmp_dirs' = tmp_dirs \ {temp_dir}
    /\ Return(endpoint_response(after_run(result'), clock))
    /\ tmp_wrappers' = finally_unlink(wrapper_script, tmp_wrappers)
    /\ UNCHANGED <<max_execution_time, called, server_vars, validator_vars, previous, created, repo_vars,
                   calls, script_path, json_data,
                   authorization, params, uploads, runs, input_data, validated_path, temp_dir,
                   wrapper_script, created_artifact, clock, executed>>

\* The deadline passes: subprocess.run kills the child, waits for it and
\* raises TimeoutExpired; the wrapper is unlinked.
Timeout ==
    /\ pc = "running"
    /\ deadline_passed(clock)
    /\ child' = "killed"
    /\ Return(endpoint_response(timeout_error(max_execution_time), clock))
    /\ tmp_wrappers' = finally_unlink(wrapper_script, tmp_wrappers)
    /\ UNCHANGED <<max_execution_time, called, server_vars, validator_vars, previous, created, repo_vars,
                   tmp_dirs, calls, script_path, json_data,
                   authorization, params, uploads, runs, input_data, validated_path,
                   temp_dir, wrapper_script, created_artifact, clock, executed,
                   result>>

\* The child runs the wrapper on the script's text to its end before the
\* deadline.
ChildRuns ==
    /\ pc = "running"
    /\ LET process == run_wrapper(wrapper_script, input_data, files[executed])
       IN  /\ process.exits
           /\ ChildExit(process.returncode, process.stdout, process.stderr)

\* The response is sent; the server takes the next request.  The request
\* and its answer are kept in previous when remember.
Finish(remember) ==
    /\ pc = "returned"
    /\ calls' = calls + 1
    /\ previous' = IF remember
                   THEN [script_path |-> script_path, json_data |-> json_data,
                         temp_dir |-> temp_dir, child |-> child, response |-> response]
                   ELSE previous
    /\ pc' = "idle"
    /\ script_path' = <<>>
    /\ json_data' = <<>>
    /\ input_data' = NoInput
    /\ validated_path' = <<>>
    /\ temp_dir' = 0
    /\ wrapper_script' = 0
    /\ created_artifact' = 0
    /\ child' = "none"
    /\ clock' = 0
    /\ executed' = <<>>
    /\ result' = NoResult
    /\ response' = NoResponse
    /\ authorization' = <<>>
    /\ params' = <<>>
    /\ uploads' = <<>>
    /\ runs' = 0
    /\ UNCHANGED <<max_execution_time, called, server_vars, validator_vars, created, repo_vars,
                   tmp_wrappers, tmp_dirs>>

Respond == Finish(FALSE)

\* --------------------------------------------------- the server's event loop

\* A request reaches the server and waits for the event loop.
Arrive ==
    /\ backlog < MaxBacklog
    /\ backlog' = backlog + 1
    /\ UNCHANGED <<max_execution_time, called, peer, validator_vars, previous, created,
                   repo_vars, tmp_wrappers, tmp_dirs, call_vars>>

\* The event loop takes up a waiting request: it runs the coroutine of the
\* endpoint, which calls execute_script as a plain function, so that the
\* loop gets control back when the endpoint has answered.
Accept(sp) ==
    /\ backlog > 0
    /\ backlog' = backlog - 1
    /\ Post(<<>>, sp, <<>>, <<>>, <<>>, FALSE)

\* ------------------------------------------------- a second server process

\* Another server process of the deployment takes up a request for sp:
\* its execute_script validates the path.
PeerPost(sp) ==
    /\ peer.pc = "idle"
    /\ validate_script_path(sp).ok
    /\ peer' = [pc |-> "prepared", validated_path |-> validate_script_path(sp).path,
                wrapper_script |-> 0]
    /\ UNCHANGED <<max_execution_time, called, backlog, validator_vars, previous, created,
                   repo_vars, tmp_wrappers, tmp_dirs, call_vars>>

\* _create_wrapper_script in the other process, in the same temp directory
PeerCreateWrapper ==
    /\ peer.pc = "prepared"
    /\ \/ \E n \in mkstemp(tmp_wrappers) :
              /\ tmp_wrappers' = (n :> peer.validated_path) @@ tmp_wrappers
              /\ peer' = [peer EXCEPT !.pc = "running", !.wrapper_script = n]
       \/ \* NamedTemporaryFile raises OSError: no file was made
          /\ tmp_wrappers' = finally_unlink(peer.wrapper_script, tmp_wrappers)
          /\ peer' = NoPeer
       \/ \* write or close raises OSError: the file was made, and
          \* wrapper_script is still None
          \E n \in mkstemp(tmp_wrappers) :
              /\ tmp_wrappers' = finally_unlink(peer.wrapper_script,
                                     (n :> peer.validated_path) @@ tmp_wrappers)
              /\ peer' = NoPeer
    /\ UNCHANGED <<max_execution_time, called, backlog, validator_vars, previous, created,
                   repo_vars, tmp_dirs, call_vars>>

\* The other process's subprocess.run returns or raises, and its finally
\* clause unlinks its wrapper.
PeerReturn ==
    /\ peer.pc = "running"
    /\ tmp_wrappers' = finally_unlink(peer.wrapper_script, tmp_wrappers)
    /\ peer' = NoPeer
    /\ UNCHANGED <<max_execution_time, called, backlog, validator_vars, previous, created,
                   repo_vars, tmp_dirs, call_vars>>

RespondRemembered == Finish(TRUE)

\* ------------------------------------------------------------------ Spec

\* Requests to the repository endpoints
RepoNext ==
    \/ \E name \in FolderNames, parent_id \in 0..MaxFolders,
          credentials \in Authorizations :
           /\ get_current_user(credentials).ok
           /\ next_folder_id <= MaxFolders
           /\ CreateFolder(name, parent_id, get_current_user(credentials).user)
           /\ UNCHANGED called
    \/ \E filename \in Filenames, folder_id \in 0..MaxFolders, content \in Contents,
          credentials \in Authorizations, replace \in BOOLEAN :
           /\ get_current_user(credentials).ok
           /\ CreateScript(filename, folder_id, content,
                           get_current_user(credentials).user, replace)
           /\ created' = Created(filename, folder_id, content,
                                 get_current_user(credentials).user, replace)
           /\ UNCHANGED called

\* create_folder for a tree of folders
CreateTreeFolder(name, parent_id, user) ==
    /\ next_folder_id <= MaxTreeFolders
    /\ CreateFolder(name, parent_id, user)
    /\ called' = NoCall

\* create_script in a tree of folders
CreateTreeScript(filename, folder_id, content, user, replace) ==
    /\ CreateScript(filename, folder_id, content, user, replace)
    /\ UNCHANGED created
    /\ called' = NoCall

\* Calls of the repository by an administrator on a tree of folders
HierarchyNext ==
    \/ \E name \in TreeNames, parent_id \in 0..MaxTreeFolders :
           CreateTreeFolder(name, parent_id, Administrator)
    \/ \E filename \in TreeFilenames, folder_id \in 0..MaxTreeFolders,
          replace \in BOOLEAN :
           CreateTreeScript(filename, folder_id, MainScript, Administrator, replace)
    \/ \E script_id \in 1..MaxScripts, filename \in TreeFilenames \cup {<<>>} :
           UpdateScript(script_id, filename, Administrator)
    \/ \E script_id \in 1..MaxScripts : DeleteScript(script_id, Administrator)
    \/ \E folder_id \in 1..MaxTreeFolders, name \in TreeNames \cup {<<>>} :
           UpdateFolder(folder_id, name, Administrator)
    \/ \E folder_id \in 1..MaxTreeFolders : DeleteFolder(folder_id, Administrator)

HierarchySpec == Init /\ [][HierarchyNext]_vars

\* Calls of the repository by its users that build and delete folders
DeleteNext ==
    \/ \E parent_id \in 0..MaxTreeFolders, user \in Users :
           CreateTreeFolder(<<"geology">>, parent_id, user)
    \/ \E folder_id \in 0..MaxTreeFolders, user \in Users, replace \in BOOLEAN :
           CreateTreeScript(<<"test", ".py">>, folder_id, MainScript, user, replace)
    \/ \E folder_id \in 1..MaxTreeFolders, user \in Users : DeleteFolder(folder_id, user)

DeleteSpec == Init /\ [][DeleteNext]_vars

\* Calls of the repository by its users that store, rename and delete scripts
StorageNext ==
    \/ \E user \in Users :
           /\ next_folder_id <= MaxFolders
           /\ CreateTreeFolder(<<"geology">>, 0, user)
    \/ \E filename \in StorageFilenames, folder_id \in 0..MaxFolders,
          content \in StorageContents, user \in Users, replace \in BOOLEAN :
           CreateTreeScript(filename, folder_id, content, user, replace)
    \/ \E script_id \in 1..MaxScripts, filename \in StorageFilenames, user \in Users :
           UpdateScript(script_id, filename, user)
    \/ \E script_id \in 1..MaxScripts, user \in Users : DeleteScript(script_id, user)

StorageSpec == Init /\ [][StorageNext]_vars

\* Requests to the execution endpoint and the steps of their handling
ExecNext ==
    \/ \E sp \in TargetPaths, jd \in JsonData, with_files \in BOOLEAN,
          tmp_full \in BOOLEAN :
           Request(sp, jd, with_files, tmp_full)
    \/ CreateWrapper
    \/ Spawn
    \/ Tick
    \/ \E returncode \in ReturnCodes, stdout \in Stdouts, stderr \in Stderrs :
           ChildExit(returncode, stdout, stderr)
    \/ Timeout
    \/ Respond

Next == RepoNext \/ ExecNext

\* The whole service.
Spec == Init /\ [][Next]_vars

\* The execution endpoint with children that run the wrapper
HarnessNext ==
    \/ \E sp \in HarnessPaths, jd \in HarnessJsonData, with_files \in BOOLEAN,
          tmp_full \in BOOLEAN :
           Request(sp, jd, with_files, tmp_full)
    \/ CreateWrapper
    \/ Spawn
    \/ Tick
    \/ ChildRuns
    \/ Timeout
    \/ RespondRemembered

\* Two requests in sequence to a deployment
HarnessSpec == HarnessInit /\ [][HarnessNext]_vars

\* The repository endpoints and the execution endpoint
ServiceNext ==
    \/ RepoNext
    \/ \E sp \in ServicePaths : Request(sp, <<>>, FALSE, FALSE)
    \/ CreateWrapper
    \/ Spawn
    \/ Tick
    \/ ChildRuns
    \/ Timeout
    \/ Respond

ServiceSpec == Init /\ [][ServiceNext]_vars

\* The validator alone, on one text.
ValidateNext == Validate

ValidateSpec == ValidateInit /\ [][ValidateNext]_vars

\* The repository endpoints alone.
RepoSpec == Init /\ [][RepoNext]_vars

\* The execution endpoint alone, on the deployment's files.
ExecSpec == Init /\ [][ExecNext]_vars

\* Requests to the execution endpoint with every header, field and upload
EndpointNext ==
    \/ \E credentials \in Authorizations, sp \in HarnessPaths, jd \in FormFields,
          ps \in FormFields, up \in Uploads, tmp_full \in BOOLEAN :
           /\ Post(credentials, sp, jd, ps, up, tmp_full)
           /\ UNCHANGED backlog
    \/ CreateWrapper
    \/ Spawn
    \/ Tick
    \/ \E returncode \in ReturnCodes, stderr \in Stderrs :
           ChildExit(returncode, <<"{", "}", "\n">>, stderr)
    \/ Timeout
    \/ Respond

EndpointSpec == Init /\ [][EndpointNext]_vars

\* One server process: requests come in while its event loop handles one
LoopNext ==
    \/ Arrive
    \/ \E sp \in HarnessPaths : Accept(sp)
    \/ CreateWrapper
    \/ Spawn
    \/ Tick
    \/ ChildRuns
    \/ Timeout
    \/ Respond

LoopSpec == Init /\ [][LoopNext]_vars

\* Two server processes on one host, each handling a request
WorkersNext ==
    \/ \E sp \in HarnessPaths : Request(sp, <<>>, FALSE, FALSE)
    \/ CreateWrapper
    \/ Spawn
    \/ Tick
    \/ ChildRuns
    \/ Timeout
    \/ Respond
    \/ \E sp \in HarnessPaths : PeerPost(sp)
    \/ PeerCreateWrapper
    \/ PeerReturn

WorkersSpec == Init /\ [][WorkersNext]_vars

\* subprocess.run returns once the child has exited or the deadline has
\* passed, the endpoint then answers, and time does not stop.
ExecFairSpec ==
    ExecSpec /\ WF_vars(Tick) /\ WF_vars(Timeout) /\ WF_vars(CreateWrapper)
             /\ WF_vars(Spawn)

\* ---------------------------------------------------------------- claims

CallReturned == pc = "returned"

IsSuccess == response.kind = "ScriptExecutionResponse" /\ response.success

IsFailure == response.kind = "ScriptExecutionResponse" /\ ~response.success

IsNotFound == response.kind = "HTTPException" /\ response.status_code = 404

\* s without its leading and trailing whitespace.
Trimmed(s) ==
    LET solid == {i \in DOMAIN s : s[i] \notin Whitespace}
    IN  IF solid = {} THEN <<>>
        ELSE SubSeq(s, CHOOSE i \in solid : \A j \in solid : i <= j,
                       CHOOSE i \in solid : \A j \in solid : i >= j)

ExitedWith(code) == CallReturned /\ child = "exited" /\ result.returncode = code

\* C1: when an execute call that made a wrapper file returns, that file no
\* longer exists, whichever way the call ended.
NoArtifactAfterReturn ==
    CallReturned /\ created_artifact # 0 => created_artifact \notin DOMAIN tmp_wrappers

TimedOut == CallReturned /\ child = "killed"

\* C2 (as amended): a call whose child was still running when the configured
\* N seconds had passed answers a Failure whose reason is
\* "Script execution timeout after N seconds".
TimeoutReason ==
    TimedOut =>
        /\ IsFailure
        /\ response.error = <<"Script execution timeout after ",
                              ToString(max_execution_time), " seconds">>

TimeoutReached == TimedOut /\ max_execution_time = MaxTimeout

\* C2 (as claimed): the reason of that Failure is "execution exceeded N seconds".
TimeoutReasonExceeded ==
    TimedOut =>
        /\ IsFailure
        /\ response.error = <<"execution exceeded ",
                              ToString(max_execution_time), " seconds">>

\* C3: every execute call returns; a child is never waited for beyond the
\* configured timeout, and no child is running once its call has returned.
CallReturnsChildEnds ==
    /\ (pc \in {"prepared", "wrapped", "running"}) ~> CallReturned
    /\ [](pc = "running" => clock <= max_execution_time)
    /\ [](pc \in {"returned", "idle"} => child # "running")

HangingChildKilled ==
    CallReturned /\ child = "killed" /\ clock = max_execution_time /\ IsFailure

ExitText ==
    IF result.stderr # <<>> THEN result.stderr
    ELSE IF result.stdout # <<>> THEN result.stdout
    ELSE <<"Unknown error">>

\* C4 (as amended): for a non-zero exit the outcome is a Failure whose reason
\* is "Error executing script: Script execution failed: " followed by stderr
\* if it is non-empty, otherwise stdout if it is non-empty, otherwise
\* "Unknown error".
NonZeroExitReason ==
    (CallReturned /\ child = "exited" /\ result.returncode # 0) =>
        /\ IsFailure
        /\ response.error =
               <<"Error executing script: ", "Script execution failed: ">> \o ExitText

NonZeroExitBothStreams ==
    /\ CallReturned /\ child = "exited" /\ result.returncode # 0
    /\ result.stderr # <<>>
    /\ result.stdout # <<>>

\* C4 (as claimed): the reason is stderr, else stdout, else "unknown error".
NonZeroExitReasonBare ==
    (CallReturned /\ child = "exited" /\ result.returncode # 0) =>
        /\ IsFailure
        /\ response.error =
               IF result.stderr # <<>> THEN result.stderr
               ELSE IF result.stdout # <<>> THEN result.stdout
               ELSE <<"unknown error">>

BlankStdout == \A i \in DOMAIN result.stdout : result.stdout[i] \in Whitespace

\* C5 (as amended): exit code 0 with stdout empty after trimming gives Success
\* with result {"message": "Script executed successfully"}.
BlankOutputResult ==
    ExitedWith(0) /\ BlankStdout =>
        /\ IsSuccess
        /\ response.result =
               Value("dict", <<"{", "\"message\"", ":",
                               "\"Script executed successfully\"", "}">>)

BlankOutputSeen == ExitedWith(0) /\ BlankStdout /\ result.stdout # <<>>

\* C5 (as claimed): the result is the empty mapping {}.
BlankOutputEmptyMapping ==
    ExitedWith(0) /\ BlankStdout =>
        /\ IsSuccess
        /\ response.result = Value("dict", <<"{", "}">>)

\* Outputs that are not JSON.
NonJsonStdouts ==
    { <<"not", " ", "json", "\n">>, <<"{", "\"doubled\"", ":", "\n">> }

NonObjectType(stdout) ==
    CASE stdout = <<"42", "\n">> -> "int"
      [] stdout = <<"[", "42", ",", "null", "]", "\n">> -> "list"
      [] stdout = <<"\"text\"", "\n">> -> "str"
      [] stdout = <<"null", "\n">> -> "NoneType"
      [] stdout = <<"true", "\n">> -> "bool"
      [] OTHER -> ""

ObjectStdouts ==
    { <<"{", "}", "\n">>, <<"{", "\"doubled\"", ":", " ", "42", "}", "\n">> }

UnresolvedIsNotFound ==
    (/\ CallReturned
     /\ \/ ScriptByLogicalPath(script_path) = {}
        \/ \E s \in ScriptByLogicalPath(script_path) :
               \/ storage_path(s.storage_filename) \notin DOMAIN files
               \/ Last(s.storage_filename) # ".py")
    => IsNotFound /\ created_artifact = 0 /\ child = "none"

\* script_path values that point outside the scripts directory.
EscapingPaths ==
    { <<"..", "/", "src", "/", "app", ".py">>,
      <<"/", "/", "..", "/", "src", "/", "app", ".py">>,
      <<"test", "/", "..", "/", "..", "/", "src", "/", "app", ".py">>,
      <<"/", "app", "/", "src", "/", "app", ".py">> }

\* The request's json_data cannot be decoded: execute_script is not called.
Undecodable == json_data # <<>> /\ ~json_loads(json_data).ok

\* C9: the file a child is started on is a file inside the scripts directory,
\* and a script_path pointing outside it is rejected with no child started
\* (with NotFound by execute_script, when the request gets that far).
ExecutionConfined ==
    /\ child # "none" =>
           /\ IsPrefix(scripts_dir, executed)
           /\ \A i \in DOMAIN executed : executed[i] # <<"..">>
           /\ executed \in DOMAIN files
    /\ CallReturned /\ script_path \in EscapingPaths =>
           /\ response.kind = "HTTPException"
           /\ ~Undecodable => IsNotFound
           /\ child = "none" /\ created_artifact = 0

EscapeRejected ==
    CallReturned /\ script_path = <<"..", "/", "src", "/", "app", ".py">> /\ IsNotFound

\* C10: execute resolves script_path as a script's logical path: a call for
\* a stored script's logical path is not answered NotFound and its child is
\* started on that script's stored file, and no child is started for a
\* script_path that is no script's logical path.
RunsScriptOfLogicalPath ==
    /\ CallReturned /\ ScriptByLogicalPath(script_path) # {} =>
           /\ ~IsNotFound
           /\ child # "none" =>
                  \E s \in ScriptByLogicalPath(script_path) :
                      executed = storage_path(s.storage_filename)
    /\ ScriptByLogicalPath(script_path) = {} => child = "none"

\* The function definitions named exactly main of a text, in ast.walk order
MainDefinitions(c) ==
    {i \in DOMAIN c.functions :
        c.functions[i].type = "FunctionDef" /\ c.functions[i].name = "main"}

\* The definition of main the validator looks at: the first one
EntryPoint(c) ==
    c.functions[CHOOSE i \in MainDefinitions(c) : \A j \in MainDefinitions(c) : i <= j]

Validated == verdict # NoVerdict

\* The annotation is the name dict or Dict, bare or subscripted
SpellsDict(a) ==
    \/ a.kind = "Name" /\ a.id \in {"dict", "Dict"}
    \/ a.kind = "Subscript" /\ a.of = "Name" /\ a.id \in {"dict", "Dict"}

\* The annotation denotes a mapping or dict type, however it is spelled
DenotesMapping(a) ==
    \/ a.kind \in {"Name", "Subscript"} /\ a.id \in {"dict", "Dict", "Mapping", "typing.Dict"}
    \/ a.kind = "Attribute" /\ a.id = "typing.Dict"
    \/ a.kind = "Constant" /\ a.id = "dict"

\* A text create_script stores: it parses, defines main, and main has one
\* positional parameter that is unannotated or annotated dict
Acceptable(c) ==
    /\ c.parses
    /\ MainDefinitions(c) # {}
    /\ Len(EntryPoint(c).args.args) = 1
    /\ LET a == EntryPoint(c).args.args[1] IN a.kind = "none" \/ SpellsDict(a)

\* C16: a create_script call, for a new script or with replace=True, whose
\* content the validator rejects raises ValidationError, writes no file to
\* the script storage and creates or changes no script record.
RejectedContentNotPersisted ==
    [][created'.call = "create_script" /\ ~Acceptable(created'.content) =>
           /\ created'.error.type = "ValidationError"
           /\ UNCHANGED <<files, scripts, next_script_id>>]_vars

\* A replacing create_script call for an existing script was rejected for its
\* content.
RejectedReplacement ==
    /\ created.call = "create_script"
    /\ created.replace
    /\ ScriptByLogicalPath(created.logical_path) # {}
    /\ ~Acceptable(created.content)
    /\ created.error.type = "ValidationError"

ParameterCount(args) ==
    Len(args.posonlyargs) + Len(args.args) + Len(args.vararg)
        + Len(args.kwonlyargs) + Len(args.kwarg)

\* C18: a main that does not declare exactly one parameter, counting
\* positional-only, positional, *args, keyword-only and **kwargs parameters,
\* is rejected for its parameter count.
MainParameterCount ==
    /\ Validated
    /\ validated_content.parses
    /\ MainDefinitions(validated_content) # {}
    /\ ParameterCount(EntryPoint(validated_content).args) # 1
    => verdict = Verdict(FALSE, BadArgumentCountMessage)

\* main has one positional parameter and no other
OneParameter(c) ==
    /\ c.parses
    /\ MainDefinitions(c) # {}
    /\ Len(EntryPoint(c).args.args) = 1

\* C19: when main has one positional parameter, validate accepts the text
\* exactly when the parameter is unannotated or its annotation is the name
\* dict or Dict, bare or subscripted; any other annotation is rejected for
\* the parameter's type.
AnnotationVerdict ==
    Validated /\ OneParameter(validated_content) =>
        LET a == EntryPoint(validated_content).args.args[1]
        IN  /\ verdict.is_valid <=> (a.kind = "none" \/ SpellsDict(a))
            /\ ~verdict.is_valid => verdict = Verdict(FALSE, BadArgumentTypeMessage)

\* A main annotated typing.Dict[...] was validated.
QualifiedDictValidated ==
    /\ Validated
    /\ OneParameter(validated_content)
    /\ EntryPoint(validated_content).args.args[1] = Subscript("Attribute", "typing.Dict")
    /\ ParameterCount(EntryPoint(validated_content).args) = 1

\* C19 as stated: an annotated single parameter is accepted exactly when
\* the annotation denotes a mapping or dict type.
MappingAnnotationVerdict ==
    /\ Validated
    /\ OneParameter(validated_content)
    /\ ParameterCount(EntryPoint(validated_content).args) = 1
    /\ EntryPoint(validated_content).args.args[1].kind # "none"
    => (verdict.is_valid <=> DenotesMapping(EntryPoint(validated_content).args.args[1]))

\* The call got past the path check and the input, and no child was started:
\* the wrapper file could not be made or the child could not be spawned.
InfrastructureFailed == CallReturned /\ validated_path # <<>> /\ child = "none"

\* C11: when the wrapper file cannot be made or the child cannot be spawned,
\* the caller gets a hard error (a server error response) that is neither a
\* Failure outcome nor NotFound.
InfrastructureErrorPropagates ==
    InfrastructureFailed =>
        /\ response.kind = "HTTPException"
        /\ response.status_code = 500
        /\ ~IsFailure /\ ~IsNotFound

\* The child exited with code 0 and wrote text that is no JSON object.
MalformedOutput ==
    /\ ExitedWith(0)
    /\ \/ result.stdout \in NonJsonStdouts
       \/ NonObjectType(result.stdout) # ""

\* A response sent as the endpoint's normal answer, with the elapsed time
NormallyTransported ==
    /\ response.kind = "ScriptExecutionResponse"
    /\ response.status_code = 200
    /\ response.execution_time \in 0..MaxTimeout

ReceivedInput ==
    IF undefined_names(dumps(input_data)) # {} THEN <<"NameError">>
    ELSE dumps(input_data)

\* The request's payload: the decoded json_data
Payload == json_loads(json_data).value

\* C13: for a request with a payload and no uploads, the script receives the
\* payload the caller supplied, and with main(data) -> data and an object
\* payload the outcome is Success with that payload as result.
PayloadRoundTrip ==
    /\ child # "none" /\ json_data # <<>> /\ temp_dir = 0 =>
           ReceivedInput = Payload.repr
    /\ (/\ CallReturned /\ child = "exited" /\ json_data # <<>> /\ temp_dir = 0
        /\ files[executed] = EchoScript
        /\ Payload.type = "dict")
       => IsSuccess /\ response.result = Payload

\* C14: for the script whose main returns {"doubled": data.get("value", 0) * 2}
\* and the payload {"value": 21}, the outcome is Success with result
\* {"doubled": 42}.
MainResultReturned ==
    (/\ CallReturned /\ child = "exited" /\ temp_dir = 0
     /\ files[executed] = DoubledScript
     /\ json_data = <<"{", "\"value\"", ":", " ", "21", "}">>)
    => /\ IsSuccess
       /\ response.result = Value("dict", <<"{", "\"doubled\"", ":", "42", "}">>)

\* C15: a call that starts a child on a stored file with no function named
\* main ends with a Failure that has a message, never with a Success.
NoMainFails ==
    (/\ CallReturned /\ child # "none"
     /\ files[executed].parses
     /\ MainDefinitions(files[executed]) = {})
    => IsFailure /\ response.error # <<>>

\* C20: two requests in sequence with the same script_path and json_data and
\* no uploads, whose children both ran to their end, get the same success
\* flag, the same result and the same error text.
RepeatedCallSameOutcome ==
    (/\ CallReturned /\ child = "exited" /\ temp_dir = 0
     /\ previous.child = "exited" /\ previous.temp_dir = 0
     /\ previous.script_path = script_path
     /\ previous.json_data = json_data)
    => /\ response.success = previous.response.success
       /\ response.result = previous.response.result
       /\ response.error = previous.response.error

\* The request carries no valid access token.
Unauthenticated == ~get_current_user(authorization).ok

\* C21: a request to the execution endpoint that carries no valid access
\* token is refused as unauthorized and never reaches script execution: no
\* input is prepared, no harness is built and no child is started for it.
OnlyAuthenticatedExecute ==
    (pc # "idle" /\ Unauthenticated) =>
        /\ pc = "returned"
        /\ response.kind = "HTTPException"
        /\ response.status_code \in {401, 403}
        /\ wrapper_script = 0
        /\ created_artifact = 0
        /\ child = "none"

UploadDirectoryRemoved ==
    (pc = "returned" /\ temp_dir # 0) => temp_dir \notin tmp_dirs

\* The request's params cannot be decoded.
UndecodableParams == params # <<>> /\ ~json_loads(params).ok

\* An uploaded file is larger than max_file_size.
Oversized == \E i \in DOMAIN uploads : uploads[i] > max_file_size

\* C30: a request whose json_data or params is no JSON is answered with
\* status 400, one with an oversized upload with status 413, and neither
\* starts a child or is answered with status 500.
ClientErrorStatus ==
    pc = "returned" =>
        /\ (Undecodable \/ UndecodableParams) =>
               /\ response.kind = "HTTPException"
               /\ response.status_code = 400
               /\ child = "none"
        /\ (~Undecodable /\ ~UndecodableParams /\ Oversized) =>
               /\ response.kind = "HTTPException"
               /\ response.status_code = 413
               /\ child = "none"

\* An execution holds the wrapper it made, until its finally clause.
InFlight == pc \in {"wrapped", "running"}

PeerInFlight == peer.pc = "running"

\* C23: at every moment an execution in flight holds one wrapper file, which
\* is on disk with the text made for it (no other execution's cleanup or
\* creation took it away), and two executions in flight, also of the same
\* script, hold wrapper files of different names.
ArtifactsPerCall ==
    /\ InFlight =>
           /\ wrapper_script \in DOMAIN tmp_wrappers
           /\ tmp_wrappers[wrapper_script] = validated_path
           /\ created_artifact = wrapper_script
    /\ PeerInFlight =>
           /\ peer.wrapper_script \in DOMAIN tmp_wrappers
           /\ tmp_wrappers[peer.wrapper_script] = peer.validated_path
    /\ (InFlight /\ PeerInFlight) => wrapper_script # peer.wrapper_script

\* Two executions of the same script are in flight.
SameScriptInFlight ==
    /\ pc = "running"
    /\ PeerInFlight
    /\ validated_path = peer.validated_path

\* C24: while an execution waits for its child and another request has been
\* received, the event loop can take up the other request.
OthersNotStarved ==
    (pc = "running" /\ backlog > 0 /\ calls + 1 < MaxCalls) =>
        ENABLED (\E sp \in HarnessPaths : Accept(sp))

\* C22: no two script records share a logical_path, no two folders share a
\* path, and an operation that would leave two such rows is rejected by the
\* repository with its conflict error: the database never has to refuse it.
UniquenessEnforced ==
    /\ \A x, y \in scripts : x.logical_path = y.logical_path => x = y
    /\ \A f, g \in folders : f.path = g.path => f = g
    /\ called.error.type # "IntegrityError"

\* The parent of a folder row, the folder of a script row
Container(id) == CHOOSE f \in folders : f.id = id

\* C26: every folder's path is its parent's path, "/" and its name (its name
\* at the root), and every script's logical_path is its folder's path, "/"
\* and its filename (its filename at the root), so that a renamed folder's
\* descendants at every depth carry the new path.
HierarchyConsistent ==
    /\ \A f \in folders :
           IF f.parent_id = 0 THEN f.path = f.name
           ELSE /\ \E g \in folders : g.id = f.parent_id
                /\ f.path = Container(f.parent_id).path \o <<"/">> \o f.name
    /\ \A x \in scripts :
           IF x.folder_id = 0 THEN x.logical_path = x.filename
           ELSE /\ \E g \in folders : g.id = x.folder_id
                /\ x.logical_path = Container(x.folder_id).path \o <<"/">> \o x.filename

RECURSIVE Subtree(_)
\* The ids of a folder and of the folders below it
Subtree(id) == {id} \cup UNION {Subtree(f.id) : f \in {g \in folders : g.parent_id = id}}

\* The user created the folder, every folder below it and every script in
\* them.
OwnsSubtree(user, id) ==
    /\ \A f \in folders : f.id \in Subtree(id) => f.created_by_id = user.id
    /\ \A x \in scripts : x.folder_id \in Subtree(id) => x.created_by_id = user.id

====
